---- MODULE Spec2Model ----
(***************************************************************************)
(* Development-mode supervisor of tooling/cli/src/interface/rust.rs:       *)
(* Rust::dev, Rust::mobile_dev, lookup and Rust::run_dev_watcher.          *)
(*                                                                         *)
(* A path is a sequence of components.  An Option is a sequence of length  *)
(* 0 (None) or 1 (Some).  The control thread's position is pc; the         *)
(* supervised processes, the watcher thread and the file system are the    *)
(* environment and move on their own.                                      *)
(***************************************************************************)
EXTENDS Integers, Sequences, FiniteSets, TLC

\* Number of file-system changes the environment makes in one session.
MaxChanges == 2

None == <<>>
Some(x) == <<x>>

----------------------------------------------------------------------------
(* The file system the session runs on. *)

tauri_path == <<"ws", "app">>
WorkspaceRoot == <<"ws">>
TauriConf == <<"ws", "app", "tauri.conf.json">>
SrcMain == <<"ws", "app", "src", "main.rs">>
SrcLog == <<"ws", "app", "src", "debug.log">>
TopLog == <<"ws", "app", "debug.log">>
TargetOut == <<"ws", "app", "target", "out">>
LibSrc == <<"ws", "lib", "src", "lib.rs">>
LibConf == <<"ws", "lib", "src", "tauri.conf.json">>
\* the manifest rewrite_manifest regenerates
CargoToml == <<"ws", "app", "Cargo.toml">>

Dirs == { <<"ws">>, <<"ws", "app">>, <<"ws", "lib">>, <<"ws", "app", "src">>,
          <<"ws", "app", "target">>, <<"ws", "lib", "src">> }
Files == { TauriConf, SrcMain, SrcLog, TopLog, TargetOut, LibSrc, LibConf, CargoToml }
Entries == Dirs \cup Files

IsPrefix(p, q) == Len(p) <= Len(q) /\ SubSeq(q, 1, Len(p)) = p
file_name(p) == IF p = <<>> THEN None ELSE Some(p[Len(p)])
\* PathBuf::join of one component; a path is compared by its components, of
\* which a "." that is not the first is none
join(dir, name) == IF name = "." THEN dir ELSE dir \o <<name>>

----------------------------------------------------------------------------
(* Ignore rules: the default ignore file, .taurignore and the file named   *)
(* by TAURI_DEV_WATCHER_IGNORE_FILE.  A rule is a name pattern; as in a    *)
(* gitignore file it matches an entry of that name at any depth, and an    *)
(* ignored directory hides everything below it.                            *)

IgnoreInputs ==
  { [default |-> {"target"}, taurignore |-> {}, env |-> None],
    [default |-> {"target"}, taurignore |-> {"debug.log"}, env |-> None],
    [default |-> {"target"}, taurignore |-> {}, env |-> Some({"debug.log"})] }

ActiveRules(ig) ==
  ig.default \cup ig.taurignore \cup (IF ig.env = None THEN {} ELSE ig.env[1])

\* p, below root dir, matches an active rule
Ignored(ig, dir, p) ==
  \E i \in (Len(dir) + 1)..Len(p) : p[i] \in ActiveRules(ig)

\* lookup(dir, f): the entries of depth <= 1 that survive the ignore filter
lookup(ig, dir) ==
  { e \in Entries : /\ IsPrefix(dir, e)
                    /\ Len(e) <= Len(dir) + 1
                    /\ ~Ignored(ig, dir, e) }

----------------------------------------------------------------------------
(* Configuration.  A configuration is identified by the version of         *)
(* tauri.conf.json it was read from; everything derived from it (the       *)
(* manifest, build.features, package.product_name) carries that version.   *)

InitialConfig == 0
ManifestOf(c) == [from_config |-> c]
FeaturesOf(c) == [from_config |-> c]
ProductNameOf(c) == [from_config |-> c]
NoConfig == [from_config |-> -1]

----------------------------------------------------------------------------
(* DebouncedEvent of the notify crate, as the control loop matches it. *)

PathKinds == {"NoticeWrite", "NoticeRemove", "Create", "Write", "Chmod", "Remove"}
Event(k, p, d) == [kind |-> k, path |-> p, dest |-> d]

event_path_by_source(event) ==
  IF event.kind \in {"Create", "Remove", "Rename", "Write"}
    THEN Some(event.path) ELSE None

event_path_of_any_kind(event) ==
  IF event.kind = "Rename" THEN Some(event.dest)
  ELSE IF event.path # <<>> THEN Some(event.path) ELSE None

\* the match of lines 350-356
event_path(event) ==
  CASE event.kind = "Create" -> Some(event.path)
    [] event.kind = "Remove" -> Some(event.path)
    [] event.kind = "Rename" -> Some(event.dest)
    [] event.kind = "Write"  -> Some(event.path)
    [] OTHER -> None

IsProjectConfigFile(p) == p = TauriConf

\* line 359
IsConfigFile(p) == file_name(p) = Some("tauri.conf.json")

----------------------------------------------------------------------------
(* Scope inputs: what cargo metadata and the workspace Cargo.toml say. *)

WorkspacePaths == { tauri_path, WorkspaceRoot }
\* CargoSettings.workspace : Option<WorkspaceSettings { members: Option<Vec<String>> }>
CargoWorkspaces ==
  { None,
    Some([members |-> None]),
    Some([members |-> Some(<<"app", "lib">>)]),
    Some([members |-> Some(<<"lib">>)]) }

RECURSIVE MapJoin(_, _)
\* a workspace whose root is a member beside the project
RootMemberWorkspace == Some([members |-> Some(<<".", "app">>)])

MapJoin(dir, names) ==
  IF names = <<>> THEN <<>>
  ELSE <<join(dir, Head(names))>> \o MapJoin(dir, Tail(names))

unwrap_or_default(opt) == IF opt = None THEN <<>> ELSE opt[1]

MemberFoldersAndProject(ws_path, ws) ==
  IF ws = None THEN <<tauri_path>>
  ELSE <<tauri_path>> \o MapJoin(ws_path, unwrap_or_default(ws[1].members))

\* lines 311-327, given the loaded cargo_settings.workspace
MemberFolders(ws_path, ws) ==
  IF ws = None THEN <<tauri_path>>
  ELSE MapJoin(ws_path, unwrap_or_default(ws[1].members))

----------------------------------------------------------------------------
(* dev_options, lines 239-278: it appends --no-default-features unless      *)
(* present, adding the manifest's default features but the custom protocol, *)
(* then splits the list at the first "--" into the build tool's arguments   *)
(* and the run arguments.                                                   *)

\* Length of the longest argument list dev_options is applied to.
MaxArgs == 3

NoDefaultFeatures == "--no-default-features"
CustomProtocol == "tauri/custom-protocol"

Contains(seq, x) == \E i \in 1..Len(seq) : seq[i] = x

\* HashMap::get
get(m, k) == IF k \in DOMAIN m THEN Some(m[k]) ELSE None

\* lines 245-257: the default features whose own list, or name when they have
\* none, is not the custom protocol
enable_features(manifest_features) ==
  LET default == IF get(manifest_features, "default") = None THEN <<>>
                 ELSE get(manifest_features, "default")[1]
      Keep(feature) ==
        IF get(manifest_features, feature) # None
          THEN ~Contains(get(manifest_features, feature)[1], CustomProtocol)
          ELSE feature # CustomProtocol
  IN SelectSeq(default, Keep)

\* lines 244-262
PushNoDefaultFeatures(args, features, manifest_features) ==
  IF Contains(args, NoDefaultFeatures)
    THEN [args |-> args, features |-> features]
    ELSE [args |-> Append(args, NoDefaultFeatures),
          features |->
            IF enable_features(manifest_features) = <<>> THEN features
            ELSE Some((IF features = None THEN <<>> ELSE features[1])
                      \o enable_features(manifest_features))]

RECURSIVE SplitArgs(_, _, _, _)
\* the loop of lines 264-277
SplitArgs(args, dev_args, run_args, reached_run_args) ==
  IF args = <<>> THEN [args |-> dev_args, run_args |-> run_args]
  ELSE IF reached_run_args
    THEN SplitArgs(Tail(args), dev_args, Append(run_args, Head(args)), TRUE)
  ELSE IF Head(args) = "--"
    THEN SplitArgs(Tail(args), dev_args, run_args, TRUE)
  ELSE SplitArgs(Tail(args), Append(dev_args, Head(args)), run_args, FALSE)

\* args and features are what the &mut parameters hold at the return
dev_options(args, features, manifest_features) ==
  LET pushed == PushNoDefaultFeatures(args, features, manifest_features)
      split == SplitArgs(pushed.args, <<>>, <<>>, FALSE)
  IN [args |-> split.args, features |-> pushed.features, run_args |-> split.run_args]

\* the command line of the session
CliArgs == <<"--release", "--", "--flag">>

\* the [features] table of the project's manifest
CliManifestFeatures ==
  ("default" :> <<"custom-protocol", "gui">>)
    @@ ("custom-protocol" :> <<"tauri/custom-protocol">>)

\* the inputs dev_options is examined on
ArgWords == { "--", NoDefaultFeatures, "--flag" }
ArgLists == UNION { [1..n -> ArgWords] : n \in 0..MaxArgs }
FeatureInputs == { None, Some(<<"cli">>) }
ManifestFeatureInputs ==
  { CliManifestFeatures,
    "default" :> <<"tauri/custom-protocol">>,
    "gui" :> <<"dep">> }

----------------------------------------------------------------------------
VARIABLES
  args,             \* options.args as dev / mobile_dev is called
  features,         \* options.features as dev / mobile_dev is called
  manifest_features,\* self.app_settings.manifest.features()
  run,              \* the run closure: the options and run_args it captured
  entry,            \* "dev" | "mobile_dev": the Interface method called
  no_watch,         \* options.no_watch
  ignore,           \* the ignore files' rules
  workspace_path,   \* what get_workspace_dir() answers
  workspace,        \* cargo_settings.workspace of the workspace root
  disk_config,      \* version of tauri.conf.json on disk
  config,           \* the ConfigHandle: version last loaded
  manifest,         \* self.app_settings.manifest
  config_features,  \* self.config_features
  product_name,     \* self.product_name
  pc,               \* position of the control thread
  result,           \* what dev / mobile_dev returned
  procs,            \* state of every process spawned, in spawn order
  process,          \* the handle in Arc<Mutex<..>>: index into procs, 0 before it
  spawn_args,       \* what the latest spawn was given
  last_kill,        \* outcome of the latest kill(): "none" | "ok" | "err"
  process_lock,     \* the Mutex around the handle: "free" | "held"
  watch_folders,    \* the watch scope
  loaded_cargo,     \* CargoSettings::load was called
  watched,          \* registered watches: [path, recursive]
  watch_failed,     \* paths whose watcher.watch() returned Err
  rx,               \* the channel from the watcher thread
  changes,          \* file-system changes so far
  exit_sent,        \* no-watch dev: on_exit has sent on tx
  skipped,          \* the loop has received an event it does not act on
  handling          \* the event this iteration of the loop acts on, if any

inputs == <<entry, no_watch, ignore, workspace_path, workspace,
            args, features, manifest_features>>
cfgvars == <<config, manifest, config_features, product_name>>
procvars == <<procs, process, spawn_args, last_kill, process_lock>>
scopevars == <<watch_folders, loaded_cargo, watched, watch_failed>>
envvars == <<disk_config, rx, changes>>
vars == <<inputs, run, cfgvars, procvars, scopevars, envvars, pc, result, exit_sent, skipped, handling>>

\* lines 166-170 and 198-202: the options and run arguments after dev_options
DevOptions ==
  LET r == dev_options(args, features, manifest_features)
  IN [options |-> [args |-> r.args, features |-> r.features],
      run_args |-> r.run_args]

LoopPcs == {"recv", "reload", "rewrite", "kill", "wait", "respawn"}
WatcherPcs == {"spawn0", "scope", "register"} \cup LoopPcs

\* the state as dev or mobile_dev is called, but for its inputs
InitSession ==
  /\ disk_config = InitialConfig
  /\ config = InitialConfig
  \* Rust::new, lines 112 and 130-136
  /\ manifest = ManifestOf(InitialConfig)
  /\ config_features = FeaturesOf(InitialConfig)
  /\ product_name = ProductNameOf(InitialConfig)
  /\ run = [options |-> [args |-> <<>>, features |-> None], run_args |-> <<>>]
  /\ pc = "entry"
  /\ result = "none"
  /\ procs = <<>>
  /\ process = 0
  /\ spawn_args = [manifest |-> NoConfig, config_features |-> NoConfig,
                   product_name |-> NoConfig, snapshot |-> -1,
                   options |-> [args |-> <<>>, features |-> None],
                   run_args |-> <<>>]
  /\ last_kill = "none"
  /\ process_lock = "free"
  /\ watch_folders = <<>>
  /\ loaded_cargo = FALSE
  /\ watched = {}
  /\ watch_failed = {}
  /\ rx = <<>>
  /\ changes = 0
  /\ exit_sent = FALSE
  /\ skipped = FALSE
  /\ handling = None

Init ==
  /\ entry \in {"dev", "mobile_dev"}
  /\ no_watch \in BOOLEAN
  /\ ignore \in IgnoreInputs
  /\ workspace_path \in WorkspacePaths
  /\ workspace \in CargoWorkspaces
  /\ args = CliArgs
  /\ features = None
  /\ manifest_features = CliManifestFeatures
  /\ InitSession

ReturnAndGoOn(r) == pc' = pc /\ result' = r

\* an early return: the ? operator, or the end of dev / mobile_dev.  The
\* handle goes out of scope; no return path calls kill() or try_wait() on it,
\* so the process it names stays in the state it was in.
Return(r) == pc' = "done" /\ result' = r

----------------------------------------------------------------------------
(* Spawning.  dev's run closure calls run_dev, which hands the runner      *)
(* self.config_features, self.app_settings and self.product_name;          *)
(* mobile_dev's closure hands the runner the options alone.                *)

\* Rust::run_dev, lines 287-295
run_dev(options, run_args) ==
  [manifest |-> manifest, config_features |-> config_features,
   product_name |-> product_name, snapshot |-> config,
   options |-> options, run_args |-> run_args]

\* the runner of mobile_dev: it is given the options alone
mobile_runner(options) ==
  [manifest |-> NoConfig, config_features |-> NoConfig,
   product_name |-> NoConfig, snapshot |-> config,
   options |-> options, run_args |-> <<>>]

\* a successful spawn: a new running process, described by what it was given
SpawnedWith(options, run_args) ==
  /\ procs' = Append(procs, "running")
  /\ spawn_args' = IF entry = "dev" THEN run_dev(options, run_args)
                                    ELSE mobile_runner(options)

SpawnedDroppingArgs ==
  SpawnedWith(run.options, IF procs = <<>> THEN run.run_args ELSE <<>>)

\* a successful run(self): the closures of lines 183-188 and 209 clone what
\* they captured
Spawned == SpawnedWith(run.options, run.run_args)

----------------------------------------------------------------------------
(* Rust::dev and Rust::mobile_dev. *)

\* dev, no_watch: lines 172-177.  run_dev()? spawns or returns the error.
dev_no_watch ==
  /\ pc = "entry" /\ entry = "dev" /\ no_watch
  /\ \/ /\ SpawnedWith(DevOptions.options, DevOptions.run_args)
        /\ process' = Len(procs) + 1
        /\ pc' = "nw_recv"
        /\ UNCHANGED result
     \/ /\ Return("ErrSpawn")
        /\ UNCHANGED <<procs, process, spawn_args>>
  /\ UNCHANGED <<inputs, run, cfgvars, last_kill, process_lock, scopevars, envvars,
                 exit_sent, skipped, handling>>

\* the on_exit closure of lines 174-177, called once the process has exited
on_exit ==
  /\ pc = "nw_recv" /\ ~exit_sent
  /\ process > 0 /\ procs[process] = "exited"
  /\ exit_sent' = TRUE
  /\ UNCHANGED <<inputs, run, cfgvars, procvars, scopevars, envvars, pc, result, skipped, handling>>

\* dev, no_watch: lines 179-180.  rx.recv() blocks for the closure's send.
dev_no_watch_recv ==
  /\ pc = "nw_recv" /\ exit_sent
  /\ Return("Ok")
  /\ UNCHANGED <<inputs, run, cfgvars, procvars, scopevars, envvars, exit_sent, skipped, handling>>

\* dev, watching: lines 181-189
dev_watch ==
  /\ pc = "entry" /\ entry = "dev" /\ ~no_watch
  /\ run' = DevOptions
  /\ pc' = "spawn0"
  /\ UNCHANGED <<inputs, cfgvars, procvars, scopevars, envvars, result, exit_sent, skipped, handling>>

\* mobile_dev, no_watch: lines 204-206.  runner(options)?; Ok(())
mobile_dev_no_watch ==
  /\ pc = "entry" /\ entry = "mobile_dev" /\ no_watch
  /\ \/ /\ SpawnedWith(DevOptions.options, DevOptions.run_args)
        /\ process' = Len(procs) + 1
        /\ Return("Ok")
     \/ /\ Return("ErrSpawn")
        /\ UNCHANGED <<procs, process, spawn_args>>
  /\ UNCHANGED <<inputs, run, cfgvars, last_kill, process_lock, scopevars, envvars,
                 exit_sent, skipped, handling>>

\* mobile_dev, watching: lines 207-210
mobile_dev_watch ==
  /\ pc = "entry" /\ entry = "mobile_dev" /\ ~no_watch
  /\ run' = DevOptions
  /\ pc' = "spawn0"
  /\ UNCHANGED <<inputs, cfgvars, procvars, scopevars, envvars, result, exit_sent, skipped, handling>>

----------------------------------------------------------------------------
(* Rust::run_dev_watcher, before the loop. *)

InitialSpawnOr(on_error) ==
  /\ pc = "spawn0"
  /\ \/ /\ Spawned
        /\ process' = Len(procs) + 1
        /\ pc' = "scope"
        /\ UNCHANGED result
     \/ /\ IF on_error = "return"
             THEN Return("ErrSpawn")
             ELSE pc' = "scope" /\ UNCHANGED result
        /\ UNCHANGED <<procs, process, spawn_args>>
  /\ UNCHANGED <<inputs, run, cfgvars, last_kill, process_lock, scopevars, envvars,
                 exit_sent, skipped, handling>>

InitialSpawnIgnoringError == InitialSpawnOr("continue")

\* line 304: let child = run(self)?;  line 306: the handle
InitialSpawn == InitialSpawnOr("return")

\* lines 308-327, with the test of line 311 answering single_crate
ResolveScopeIf(single_crate) ==
  /\ pc = "scope"
  /\ \/ /\ Return("ErrMetadata")
        /\ UNCHANGED <<watch_folders, loaded_cargo>>
     \/ /\ single_crate
        /\ watch_folders' = <<tauri_path>>
        /\ pc' = "register"
        /\ UNCHANGED <<loaded_cargo, result>>
     \/ /\ ~single_crate
        /\ loaded_cargo' = TRUE
        /\ \/ /\ Return("ErrCargoToml")
              /\ UNCHANGED watch_folders
           \/ /\ watch_folders' = MemberFolders(workspace_path, workspace)
              /\ pc' = "register"
              /\ UNCHANGED result
  /\ UNCHANGED <<inputs, run, cfgvars, procvars, watched, watch_failed, envvars,
                 exit_sent, skipped, handling>>

ResolveScopeAlwaysLoads == ResolveScopeIf(FALSE)

\* lines 308-327: get_workspace_dir()?, then the watch scope
ResolveScope == ResolveScopeIf(tauri_path = workspace_path)

\* the closure of lines 332-344, over what lookup lists for one folder
WatchesOf(path) ==
  { [path |-> p, recursive |-> (p \in Dirs)] : p \in lookup(ignore, path) \ {path} }

\* the paths the session's watcher.watch() may fail on
WatchFaults == { {}, {<<"ws", "app", "src">>} }

\* every watcher.watch() of the loops of lines 330-345, where the calls on the
\* paths in faults return Err
RegisterWatchesOr(on_failure) ==
  /\ pc = "register"
  /\ \E faults \in WatchFaults :
       LET wanted == UNION { WatchesOf(watch_folders[i]) : i \in 1..Len(watch_folders) }
           failed == { w \in wanted : w.path \in faults }
       IN /\ watch_failed' = { w.path : w \in failed }
          /\ IF on_failure = "abort" /\ failed # {}
               THEN /\ Return("ErrWatch")
                    /\ watched' = {}
               ELSE /\ watched' = wanted \ failed
                    /\ pc' = "recv"
                    /\ UNCHANGED result
  /\ UNCHANGED <<inputs, run, cfgvars, procvars, watch_folders, loaded_cargo, envvars,
                 exit_sent, skipped, handling>>

RegisterWatchesAborting == RegisterWatchesOr("abort")

\* lines 329-345: let _ = watcher.watch(..) drops the Result
RegisterWatches == RegisterWatchesOr("skip")

----------------------------------------------------------------------------
(* The loop of run_dev_watcher, lines 347-379. *)

RouteSkippingManifest(event) ==
  LET ep == event_path(event) IN
  IF ep = None THEN "recv"
  ELSE IF file_name(ep[1]) \in {Some("tauri.conf.json"), Some("Cargo.toml")}
    THEN "reload" ELSE "kill"

RouteAlwaysRestart(event) ==
  IF event_path(event) = None THEN "recv" ELSE "kill"

\* what lines 350-363 do with a received event
Route(event) ==
  LET ep == event_path(event) IN
  IF ep = None THEN "recv"
  ELSE IF IsConfigFile(ep[1]) THEN "reload" ELSE "kill"

RecvAt(places) ==
  /\ pc \in places /\ rx # <<>>
  /\ rx' = Tail(rx)
  /\ pc' = Route(Head(rx))
  /\ skipped' = (skipped \/ event_path(Head(rx)) = None)
  /\ handling' = IF Route(Head(rx)) = "recv" THEN None ELSE Some(Head(rx))
  /\ UNCHANGED <<inputs, run, cfgvars, procvars, scopevars, disk_config, changes,
                 result, exit_sent>>

RecvWhileWaiting == RecvAt({"recv", "wait"})

\* line 349: rx.recv() at the top of the loop
Recv == RecvAt({"recv"})

ReloadConfigThen(next) ==
  /\ pc = "reload"
  /\ \/ /\ config' = disk_config
        /\ pc' = next
        /\ UNCHANGED result
     \/ /\ Return("ErrReload")
        /\ UNCHANGED config
  /\ UNCHANGED <<inputs, run, manifest, config_features, product_name, procvars,
                 scopevars, envvars, exit_sent, skipped>>
  \* the binding of line 350 ends with the iteration
  /\ handling' = IF pc' \in {"recv", "done"} THEN None ELSE handling

ReloadConfigOnly == ReloadConfigThen("recv")

\* line 360: let config = reload_config(config.as_deref())?;
ReloadConfig == ReloadConfigThen("rewrite")

\* what the watcher sends when rewrite_manifest has run: nothing when the
\* manifest on disk was left as it was or no watch covers it, else its Write
ManifestEvents ==
  IF \E w \in watched : w.path = CargoToml
    THEN { <<>>, <<Event("Write", CargoToml, <<>>)>> }
    ELSE { <<>> }

\* lines 361-362: self.app_settings.manifest = rewrite_manifest(..)?;
RewriteManifest ==
  /\ pc = "rewrite"
  /\ \/ /\ manifest' = ManifestOf(config)
        /\ \E sent \in ManifestEvents : rx' = rx \o sent
        /\ pc' = "recv"
        /\ UNCHANGED result
     \/ /\ Return("ErrRewrite")
        /\ UNCHANGED <<manifest, rx>>
  /\ UNCHANGED <<inputs, run, config, config_features, product_name, procvars,
                 scopevars, disk_config, changes, exit_sent, skipped>>
  \* the binding of line 350 ends with the iteration
  /\ handling' = IF pc' \in {"recv", "done"} THEN None ELSE handling

\* DevProcess::kill on a process in state st: force-kill; the exit itself
\* follows later and is what try_wait reports
Killed(st) == IF st = "running" THEN "killed" ELSE st

\* the guard p of line 367 lives to the end of the block of lines 366-376,
\* or to the return of a ? inside it; lock_after is the lock once kill is Ok
KillOr(on_error, lock_after) ==
  /\ pc = "kill"
  /\ process_lock = "free"
  /\ \/ /\ procs' = [procs EXCEPT ![process] = Killed(@)]
        /\ last_kill' = "ok"
        /\ process_lock' = lock_after
        /\ pc' = "wait"
        /\ UNCHANGED result
     \/ /\ last_kill' = "err"
        /\ IF on_error = "return"
             THEN Return("ErrKill") /\ process_lock' = "free"
             ELSE pc' = "wait" /\ process_lock' = lock_after /\ UNCHANGED result
        /\ UNCHANGED procs
  /\ UNCHANGED <<inputs, run, cfgvars, process, spawn_args, scopevars, envvars, exit_sent, skipped>>
  \* the binding of line 350 ends with the iteration
  /\ handling' = IF pc' \in {"recv", "done"} THEN None ELSE handling

KillIgnoringError == KillOr("continue", "held")

KillReleasingLock == KillOr("return", "free")

\* lines 367-368: process.lock(), p.kill().with_context(..)?
Kill == KillOr("return", "held")

TryWaitUntil(exited) ==
  /\ pc = "wait"
  /\ exited
  /\ pc' = "respawn"
  /\ UNCHANGED <<inputs, run, cfgvars, procvars, scopevars, envvars, result, exit_sent, skipped, handling>>

TryWaitOnce == TryWaitUntil(TRUE)

TryWaitNever == TryWaitUntil(FALSE)

\* lines 370-374: loop until p.try_wait() is Ok(Some(_))
TryWait == TryWaitUntil(procs[process] = "exited")

\* line 375: *p = run(self)?;
Respawn ==
  /\ pc = "respawn"
  /\ \/ /\ Spawned
        /\ process' = Len(procs) + 1
        /\ pc' = "recv"
        /\ UNCHANGED result
     \/ /\ Return("ErrSpawn")
        /\ UNCHANGED <<procs, process, spawn_args>>
  \* line 376, or the ? of line 375: the guard is dropped
  /\ process_lock' = "free"
  /\ UNCHANGED <<inputs, run, cfgvars, last_kill, scopevars, envvars, exit_sent, skipped>>
  \* the binding of line 350 ends with the iteration
  /\ handling' = IF pc' \in {"recv", "done"} THEN None ELSE handling

----------------------------------------------------------------------------
(* The environment: the supervised processes and the file system with the  *)
(* watcher thread on it.                                                   *)

\* a process ends: by itself when running, or as the kill takes effect
ProcessExits ==
  /\ \E i \in 1..Len(procs) :
       /\ procs[i] # "exited"
       /\ procs' = [procs EXCEPT ![i] = "exited"]
  /\ UNCHANGED <<inputs, run, cfgvars, process, spawn_args, last_kill, process_lock,
                 scopevars, envvars, pc, result, exit_sent, skipped, handling>>

\* the watcher of line 329 lives until run_dev_watcher returns
WatcherLive == pc \in LoopPcs

\* a registered watch covers q
Watched(q) ==
  \E w \in watched : q = w.path \/ (w.recursive /\ IsPrefix(w.path, q))

\* the changes the session sees: the kind the watcher reports, and the file
FsChanges ==
  { <<"Write", TauriConf>>, <<"NoticeWrite", TauriConf>>, <<"Chmod", TauriConf>>,
    <<"Remove", TauriConf>>,
    <<"Write", SrcMain>>, <<"Create", SrcMain>>, <<"NoticeRemove", SrcMain>>,
    <<"Write", SrcLog>>, <<"Write", TopLog>>, <<"Write", TargetOut>>,
    <<"Write", LibSrc>>, <<"Create", LibConf>>, <<"Write", CargoToml>> }

\* a change of kind k to file p; the watcher sends it if a watch covers p
FsChange ==
  /\ changes < MaxChanges
  /\ changes' = changes + 1
  /\ \E c \in FsChanges :
       LET k == c[1]
           p == c[2]
       IN /\ k \in PathKinds /\ p \in Files
          /\ rx' = IF WatcherLive /\ Watched(p)
                     THEN Append(rx, Event(k, p, <<>>)) ELSE rx
          /\ disk_config' = IF p = TauriConf /\ k \in {"Create", "Write"}
                              THEN disk_config + 1 ELSE disk_config
  /\ UNCHANGED <<inputs, run, cfgvars, procvars, scopevars, pc, result, exit_sent, skipped, handling>>

\* renames the session sees: source and destination
RenamePairs == { <<SrcMain, TauriConf>>, <<TauriConf, SrcMain>>, <<SrcMain, SrcLog>> }

\* a rename inside the watched tree arrives as one Rename(source, dest); with
\* one end outside it the watcher reports a Remove or a Create of the other end
FsRename ==
  /\ changes < MaxChanges
  /\ changes' = changes + 1
  /\ \E r \in RenamePairs :
       LET src == r[1]
           dst == r[2]
           ev == IF Watched(src) /\ Watched(dst) THEN Some(Event("Rename", src, dst))
                 ELSE IF Watched(src) THEN Some(Event("Remove", src, <<>>))
                 ELSE IF Watched(dst) THEN Some(Event("Create", dst, <<>>))
                 ELSE None
       IN /\ rx' = IF WatcherLive /\ ev # None THEN Append(rx, ev[1]) ELSE rx
          /\ disk_config' = IF dst = TauriConf THEN disk_config + 1 ELSE disk_config
  /\ UNCHANGED <<inputs, run, cfgvars, procvars, scopevars, pc, result, exit_sent, skipped, handling>>

\* the watcher's own events: Rescan and Error carry no path to act on
WatcherNotice ==
  /\ changes < MaxChanges
  /\ changes' = changes + 1
  /\ WatcherLive
  /\ \E k \in {"Rescan", "Error"} : rx' = Append(rx, Event(k, <<>>, <<>>))
  /\ UNCHANGED <<inputs, run, cfgvars, procvars, scopevars, disk_config, pc, result,
                 exit_sent, skipped, handling>>

Next ==
  \/ dev_no_watch
  \/ on_exit
  \/ dev_no_watch_recv
  \/ dev_watch
  \/ mobile_dev_no_watch
  \/ mobile_dev_watch
  \/ InitialSpawn
  \/ ResolveScope
  \/ RegisterWatches
  \/ Recv
  \/ ReloadConfig
  \/ RewriteManifest
  \/ Kill
  \/ TryWait
  \/ Respawn
  \/ ProcessExits
  \/ FsChange
  \/ FsRename
  \/ WatcherNotice

Spec == Init /\ [][Next]_vars

\* a killed process ends
KilledExits ==
  /\ \E i \in 1..Len(procs) :
       /\ procs[i] = "killed"
       /\ procs' = [procs EXCEPT ![i] = "exited"]
  /\ UNCHANGED <<inputs, run, cfgvars, process, spawn_args, last_kill, process_lock,
                 scopevars, envvars, pc, result, exit_sent, skipped, handling>>

\* the watching session of one project that is its own workspace
InitLive ==
  /\ entry \in {"dev", "mobile_dev"}
  /\ no_watch = FALSE
  /\ ignore = [default |-> {"target"}, taurignore |-> {}, env |-> None]
  /\ workspace_path = tauri_path
  /\ workspace = None
  /\ args = CliArgs
  /\ features = None
  /\ manifest_features = CliManifestFeatures
  /\ InitSession

NextLive ==
  \/ dev_watch
  \/ mobile_dev_watch
  \/ InitialSpawn
  \/ ResolveScope
  \/ RegisterWatches
  \/ Recv
  \/ ReloadConfig
  \/ RewriteManifest
  \/ Kill
  \/ TryWait
  \/ Respawn
  \/ ProcessExits
  \/ FsChange
  \/ FsRename
  \/ WatcherNotice

\* The control thread runs on while it has a step to take: the block of lines
\* 366-376 holds no blocking call but the busy loop on try_wait.  A killed
\* process ends: the premise under which a restart is expected to complete.
SpecLive ==
  /\ InitLive /\ [][NextLive]_vars
  /\ WF_vars(Kill) /\ WF_vars(TryWait) /\ WF_vars(Respawn)
  /\ WF_vars(KilledExits)

\* the watching session up to the loop, over every workspace layout
InitScope ==
  /\ entry \in {"dev", "mobile_dev"}
  /\ no_watch = FALSE
  /\ ignore \in IgnoreInputs
  /\ workspace_path \in WorkspacePaths
  /\ workspace \in CargoWorkspaces \cup {RootMemberWorkspace}
  /\ args = CliArgs
  /\ features = None
  /\ manifest_features = CliManifestFeatures
  /\ InitSession

NextScope ==
  \/ dev_watch
  \/ mobile_dev_watch
  \/ InitialSpawn
  \/ ResolveScope
  \/ RegisterWatches
  \/ ProcessExits

SpecScope == InitScope /\ [][NextScope]_vars

\* dev and mobile_dev, watching, called with every argument list up to
\* MaxArgs, as far as the run closure that captures what dev_options left
InitArgs ==
  /\ entry \in {"dev", "mobile_dev"}
  /\ no_watch = FALSE
  /\ ignore = [default |-> {"target"}, taurignore |-> {}, env |-> None]
  /\ workspace_path = tauri_path
  /\ workspace = None
  /\ args \in ArgLists
  /\ features \in FeatureInputs
  /\ manifest_features \in ManifestFeatureInputs
  /\ InitSession

NextArgs ==
  \/ dev_watch
  \/ mobile_dev_watch

SpecArgs == InitArgs /\ [][NextArgs]_vars

----------------------------------------------------------------------------
(* Properties. *)

AliveProcs == { i \in 1..Len(procs) : procs[i] # "exited" }
AllExited == \A i \in 1..Len(procs) : procs[i] = "exited"
IsPrefixOf(s, t) == Len(s) <= Len(t) /\ SubSeq(t, 1, Len(s)) = s
NoKillNoSpawn ==
  /\ process' = process
  /\ Len(procs') = Len(procs)
  /\ last_kill' = last_kill
  /\ spawn_args' = spawn_args
  /\ \A i \in 1..Len(procs) : procs'[i] = "killed" => procs[i] = "killed"

\* C1: at most one supervised process is alive in every reachable state, and
\* when the loop is about to call the run closure again the previous process
\* has been killed and has been seen to have exited.
C1_SingleInstance ==
  /\ Cardinality(AliveProcs) <= 1
  /\ pc = "respawn" => (last_kill = "ok" /\ AllExited)

\* a restart has happened: the second process runs, the first has exited
C1_Witness ==
  /\ pc = "recv" /\ Len(procs) = 2
  /\ procs[1] = "exited" /\ procs[2] = "running" /\ process = 2

\* the path a received event is handled by: the destination for a Rename
ActedPath(e) == IF e.kind = "Rename" THEN e.dest ELSE e.path
NamesConfig(e) ==
  ActedPath(e) # <<>> /\ ActedPath(e)[Len(ActedPath(e))] = "tauri.conf.json"
Received == pc = "recv" /\ rx # <<>> /\ rx' = Tail(rx)

\* C2: an event for tauri.conf.json is never routed to the restart branch;
\* a Create/Write/Remove/Rename of it goes to the reload, and from its receipt
\* until the loop waits again the handle and the processes are left alone:
\* no kill, no wait, no spawn, only reload_config once and then
\* rewrite_manifest once.
C2_ConfigIsolation ==
  [][ /\ (Received /\ NamesConfig(Head(rx))) =>
            /\ pc' \in {"reload", "recv"}
            /\ Head(rx).kind \in {"Create", "Write", "Remove", "Rename"}
                 => pc' = "reload"
            /\ NoKillNoSpawn
      /\ pc = "reload" => (NoKillNoSpawn /\ pc' \in {"reload", "rewrite", "done"})
      /\ pc = "rewrite" => (NoKillNoSpawn /\ pc' \in {"rewrite", "recv", "done"})
    ]_vars

\* a changed tauri.conf.json has been handled and the first process still runs
C2_Witness ==
  /\ pc = "recv" /\ manifest = ManifestOf(1) /\ config = 1
  /\ Len(procs) = 1 /\ procs[1] = "running" /\ process = 1 /\ last_kill = "none"

\* C3: a successful reload_config is followed at once by rewrite_manifest with
\* the reloaded configuration: between the two the loop receives no event and
\* no process is killed or spawned.
C3_ReloadThenRewrite ==
  [][ /\ (pc = "reload" /\ pc' \notin {"reload", "done"}) =>
            (pc' = "rewrite" /\ config' = disk_config)
      /\ pc = "rewrite" =>
            /\ NoKillNoSpawn
            /\ IsPrefixOf(rx, rx')
            /\ config' = config
            /\ \/ pc' = "rewrite" /\ manifest' = manifest
               \/ pc' = "recv" /\ manifest' = ManifestOf(config)
               \/ pc' = "done" /\ result' = "ErrRewrite" /\ manifest' = manifest
    ]_vars

\* the second version of the configuration was reloaded and its manifest written
C3_Witness ==
  pc = "recv" /\ config = 2 /\ manifest = ManifestOf(2)

\* C4: when kill() fails the loop returns that error, and no process is
\* spawned from then on.
C4_FailClosedKill ==
  [][ /\ last_kill' = "err" => (pc' = "done" /\ result' = "ErrKill")
      /\ last_kill = "err" => (Len(procs') = Len(procs) /\ process' = process)
    ]_vars

\* kill failed on a running process and the supervisor has returned
C4_Witness ==
  /\ last_kill = "err" /\ pc = "done" /\ result = "ErrKill"
  /\ process = 1 /\ procs[1] = "running"

\* C5: the loop takes an event from the channel only while it waits at the top
\* of the loop, with no kill pending and every earlier process exited; events
\* that arrive during a restart stay queued until the new process is spawned.
C5_RestartsSerialized ==
  [][ /\ Len(rx') < Len(rx) =>
            /\ pc = "recv"
            /\ procs[process] # "killed"
            /\ \A i \in 1..Len(procs) : i # process => procs[i] = "exited"
      /\ pc \in {"kill", "wait", "respawn"} => IsPrefixOf(rx, rx')
    ]_vars

\* a restart completed while another event was waiting in the channel
C5_Witness ==
  /\ pc = "recv" /\ Len(procs) = 2 /\ procs[1] = "exited" /\ rx # <<>>
  /\ event_path(Head(rx)) # None

\* C6: whenever run_dev_watcher has returned, every process it spawned has
\* exited.
C6_ProcessDestroyedAtReturn ==
  (pc = "done" /\ ~no_watch) => AllExited

\* C7: with no_watch the runner is called exactly once, run_dev_watcher is not
\* entered, and Ok is returned only after that process has exited.
C7_NoWatchBlocksUntilExit ==
  no_watch =>
    /\ pc \notin WatcherPcs
    /\ Len(procs) <= 1
    /\ result = "Ok" => (Len(procs) = 1 /\ procs[1] = "exited")

\* C8: every process dev spawns is given a manifest, configuration features and
\* a product name that come from the configuration current at the spawn.
C8_RespawnUsesCurrentConfig ==
  (entry = "dev" /\ Len(procs) >= 1) =>
    /\ spawn_args.manifest = ManifestOf(spawn_args.snapshot)
    /\ spawn_args.config_features = FeaturesOf(spawn_args.snapshot)
    /\ spawn_args.product_name = ProductNameOf(spawn_args.snapshot)

\* e's acted path lies under a watch folder and matches an active ignore rule
IgnoredEvent(e) ==
  \E i \in 1..Len(watch_folders) :
    /\ IsPrefix(watch_folders[i], ActedPath(e))
    /\ Ignored(ignore, watch_folders[i], ActedPath(e))

\* C9: no event for a path that matches an active ignore rule, at any depth
\* below a watch folder, is ever in the channel to the control loop.
C9_IgnoredNeverDelivered ==
  \A i \in 1..Len(rx) : ~IgnoredEvent(rx[i])

\* C10: when the project directory is not the workspace root and the root's
\* Cargo.toml declares no member list, the watch scope is the project directory.
C10_NoMembersFallsBack ==
  ( /\ pc \in {"register"} \cup LoopPcs
    /\ tauri_path # workspace_path
    /\ (workspace = None \/ workspace[1].members = None) )
  => watch_folders = <<tauri_path>>

ScopeResolved == pc \in {"register"} \cup LoopPcs

\* C11: when the project directory is the workspace root the watch scope is
\* the one-element list of the project directory, and the workspace
\* Cargo.toml is never loaded.
C11_SingleCrateScope ==
  tauri_path = workspace_path =>
    /\ ~loaded_cargo
    /\ ScopeResolved => watch_folders = <<tauri_path>>

\* a single-crate session whose Cargo.toml has a member list reached the loop
C11_Witness ==
  /\ pc = "recv" /\ tauri_path = workspace_path
  /\ workspace = Some([members |-> Some(<<"app", "lib">>)])
  /\ watch_folders = <<tauri_path>>

\* C12: when the project directory is not the workspace root W and W's
\* Cargo.toml declares members m1..mn, the watch scope is W/m1, .., W/mn in
\* that order and nothing else.
C12_MemberScope ==
  ( /\ ScopeResolved
    /\ tauri_path # workspace_path
    /\ workspace # None /\ workspace[1].members # None )
  => LET m == workspace[1].members[1] IN
       /\ Len(watch_folders) = Len(m)
       /\ \A i \in 1..Len(m) : watch_folders[i] = workspace_path \o <<m[i]>>

\* the project directory is not a declared member and is not in the scope
C12_Witness ==
  /\ pc = "recv" /\ tauri_path # workspace_path
  /\ workspace = Some([members |-> Some(<<"lib">>)])
  /\ watch_folders = << <<"ws", "lib">> >>
  /\ watched # {}

ActedKinds == {"Create", "Write", "Remove", "Rename"}

\* C13 as stated: every received event whose path is named tauri.conf.json
\* goes to the reload, every other Create/Write/Remove/Rename to the restart.
C13_EveryConfigEventReloads ==
  [][ Received =>
        /\ NamesConfig(Head(rx)) => pc' = "reload"
        /\ (Head(rx).kind \in ActedKinds /\ ~NamesConfig(Head(rx))) => pc' = "kill"
    ]_vars

\* C13, amended: a received Create/Write/Remove/Rename goes to the reload when
\* its path (the destination of a Rename) is named tauri.conf.json, under
\* whichever folder, and to the restart otherwise; an event of another kind
\* goes to neither.
C13_Routing ==
  [][ Received =>
        pc' = IF Head(rx).kind \notin ActedKinds THEN "recv"
              ELSE IF NamesConfig(Head(rx)) THEN "reload" ELSE "kill"
    ]_vars

\* a tauri.conf.json in a subdirectory of another member was routed to the
\* reload: with ws/lib the only watch folder no other event can lead there
C13_Witness ==
  /\ pc = "reload"
  /\ watch_folders = << <<"ws", "lib">> >>
  /\ disk_config = InitialConfig

\* C14: a failed call makes dev / mobile_dev return at once; after the return
\* the control thread does nothing more (no call repeated, no event taken);
\* a failed reload_config leaves the manifest alone and kills or spawns
\* nothing, and a failed metadata query or Cargo.toml load happens before any
\* watch is registered.
C14_FatalNotRetried ==
  [][ /\ result' # result => (result = "none" /\ pc' = "done")
      /\ pc = "done" =>
            /\ pc' = "done" /\ result' = result
            /\ IsPrefixOf(rx, rx')
            /\ cfgvars' = cfgvars /\ scopevars' = scopevars
            /\ NoKillNoSpawn
      /\ (result' = "ErrReload" /\ result = "none") =>
            (pc = "reload" /\ cfgvars' = cfgvars /\ NoKillNoSpawn)
      /\ (result' = "ErrRewrite" /\ result = "none") =>
            (pc = "rewrite" /\ cfgvars' = cfgvars /\ NoKillNoSpawn)
      /\ (result' \in {"ErrMetadata", "ErrCargoToml"} /\ result = "none") =>
            (pc = "scope" /\ watched' = {} /\ rx' = <<>> /\ NoKillNoSpawn)
    ]_vars

\* reload_config failed: the supervisor has returned with the process running,
\* the old manifest in place and an event left in the channel
C14_Witness ==
  /\ pc = "done" /\ result = "ErrReload"
  /\ manifest = ManifestOf(InitialConfig) /\ disk_config = 1
  /\ procs = <<"running">> /\ rx # <<>>

\* C15: every process the watching supervisor spawns is given the options
\* and run arguments the run closure captured before the loop, the same at
\* the initial spawn and at every respawn.
C15_SameRunArguments ==
  [][ /\ pc \in WatcherPcs => run' = run
      /\ (Len(procs') > Len(procs) /\ ~no_watch) =>
            /\ spawn_args'.options = run.options
            /\ entry = "dev" => spawn_args'.run_args = run.run_args
            /\ Len(procs) >= 1 =>
                 /\ spawn_args'.options = spawn_args.options
                 /\ spawn_args'.run_args = spawn_args.run_args
    ]_vars

\* dev has respawned with the run arguments of the command line
C15_Witness ==
  /\ entry = "dev" /\ pc = "recv" /\ Len(procs) = 2
  /\ spawn_args.run_args = DevOptions.run_args
  /\ Contains(spawn_args.run_args, "--flag")

\* C16 (debounce coalescing) is a property of the debounced watcher that the
\* notify crate builds at line 329; the session's part is the Duration it
\* passes, and what the crate does with it is not in this source.

\* C17: the queue between the watcher thread and the loop stays below a fixed
\* capacity, the watcher blocking on send when it is full.  Here: it never
\* holds every event the session's changes produce.
C17_BoundedMailbox == Len(rx) < MaxChanges

\* the watches the loops of lines 330-345 ask for
WantedWatches ==
  { p \in Entries : \E i \in 1..Len(watch_folders) :
      p \in lookup(ignore, watch_folders[i]) \ {watch_folders[i]} }

\* C18: a watch that fails to register is skipped: every other listed entry of
\* every root is registered and the loop is entered.
C18_FailedWatchSkipped ==
  [][ (pc = "register" /\ pc' # pc) =>
        /\ pc' = "recv"
        /\ result' = result
        /\ \A p \in WantedWatches :
             p \notin watch_failed' => \E w \in watched' : w.path = p
    ]_vars

\* the loop runs with one watch failed and the others of two roots in place
C18_Witness ==
  /\ pc = "recv"
  /\ watch_failed = {<<"ws", "app", "src">>}
  /\ Len(watch_folders) = 2
  /\ Watched(TauriConf) /\ Watched(LibSrc) /\ ~Watched(SrcMain)

\* C19: the lock on the handle is taken before kill and held through the wait
\* loop and the assignment of the new process; the handle changes under the
\* lock only.
C19_LockHeldThroughRestart ==
  [][ /\ pc \in {"wait", "respawn"} => process_lock = "held"
      /\ (pc = "kill" /\ pc' = "wait") => process_lock' = "held"
      /\ (pc \in LoopPcs /\ process' # process) =>
            pc = "respawn" /\ process_lock = "held"
      /\ pc' \notin {"wait", "respawn"} => process_lock' = "free"
    ]_vars

\* the loop waits for the killed process with the lock held
C19_Witness ==
  /\ pc = "wait" /\ process_lock = "held" /\ last_kill = "ok"
  /\ procs[process] = "killed"

\* the event the loop received is one it acts on, for the manifest
ManifestEventReceived ==
  /\ Received /\ Head(rx).kind \in ActedKinds
  /\ ActedPath(Head(rx)) = CargoToml

\* C20: an event for the regenerated manifest is handled as any other
\* non-configuration event: it leads to kill, wait and one respawn, while the
\* configuration event before it spawns and kills nothing.
C20_ManifestEventRestarts ==
  [][ /\ ManifestEventReceived => pc' = "kill"
      /\ pc = "kill" => pc' \in {"kill", "wait", "done"}
      /\ pc = "wait" => pc' \in {"wait", "respawn"}
      /\ pc = "respawn" => pc' \in {"respawn", "recv", "done"}
      /\ (pc = "respawn" /\ pc' = "recv") => Len(procs') = Len(procs) + 1
      /\ pc \in {"reload", "rewrite"} =>
            /\ Len(procs') = Len(procs) /\ process' = process
            /\ pc' \in {"reload", "rewrite", "recv", "done"}
    ]_vars

\* one edit of the configuration file, and one restart: from the manifest event
C20_Witness ==
  /\ pc = "recv" /\ rx = <<>>
  /\ changes = 1 /\ config = 1 /\ manifest = ManifestOf(1)
  /\ Len(procs) = 2 /\ process = 2

\* the number of times x occurs in seq
Count(seq, x) == Cardinality({ i \in 1..Len(seq) : seq[i] = x })

\* the position of the first "--" of seq, or one past its end
FirstSeparator(seq) ==
  IF Contains(seq, "--")
    THEN CHOOSE i \in 1..Len(seq) :
           seq[i] = "--" /\ \A j \in 1..(i - 1) : seq[j] # "--"
    ELSE Len(seq) + 1

BeforeSeparator(seq) == SubSeq(seq, 1, FirstSeparator(seq) - 1)
AfterSeparator(seq) == SubSeq(seq, FirstSeparator(seq) + 1, Len(seq))

\* C26: after dev_options the build tool's arguments hold
\* --no-default-features exactly once and no "--", the run arguments are the
\* input arguments after the first "--", and a flag already given before the
\* "--" adds nothing.
C26_ArgumentSplit ==
  pc = "spawn0" =>
    /\ Count(run.options.args, NoDefaultFeatures) = 1
    /\ ~Contains(run.options.args, "--")
    /\ run.run_args = AfterSeparator(args)
    /\ Contains(BeforeSeparator(args), NoDefaultFeatures) =>
         run.options.args = BeforeSeparator(args)

\* C21: once an event is routed to the restart, the loop is back at recv
\* with a new process running, unless kill or the spawn fails; and while
\* try_wait reports no exit, the loop stays in the wait: nothing is spawned
\* and no event is taken from the channel.
C21_RestartCompletes ==
  /\ (pc = "kill") ~>
       \/ pc = "recv" /\ procs[process] = "running"
       \/ pc = "done" /\ result \in {"ErrKill", "ErrSpawn"}
  /\ [][ (pc = "wait" /\ procs[process] # "exited") =>
           /\ pc' = "wait"
           /\ Len(procs') = Len(procs) /\ process' = process
           /\ Len(rx') >= Len(rx)
       ]_vars

\* a restart has replaced the killed process and the loop waits for events
C21_Witness ==
  /\ pc = "recv" /\ Len(procs) = 2 /\ process = 2
  /\ last_kill = "ok" /\ procs[1] = "exited" /\ procs[2] = "running"

\* C22: a failed initial spawn ends run_dev_watcher before the scope is
\* resolved, a watch registered or an event received; a failed respawn ends
\* it with every process exited; after either no event is received.
C22_SpawnFailureFatal ==
  [][ /\ (pc = "spawn0" /\ pc' # pc) =>
            \/ pc' = "scope" /\ Len(procs') = 1
            \/ /\ pc' = "done" /\ result' = "ErrSpawn" /\ procs' = <<>>
               /\ watch_folders' = <<>> /\ ~loaded_cargo' /\ watched' = {}
               /\ rx' = <<>>
      /\ (pc = "respawn" /\ pc' # pc) =>
            \/ pc' = "recv" /\ Len(procs') = Len(procs) + 1
            \/ /\ pc' = "done" /\ result' = "ErrSpawn"
               /\ \A i \in 1..Len(procs') : procs'[i] = "exited"
      /\ pc = "done" =>
            /\ pc' = "done" /\ result' = result
            /\ rx' = rx /\ Len(procs') = Len(procs)
            /\ watched' = watched /\ watch_folders' = watch_folders
    ]_vars

\* a respawn has failed: the session has ended and no process is left
C22_Witness ==
  /\ pc = "done" /\ result = "ErrSpawn"
  /\ Len(procs) = 1 /\ last_kill = "ok" /\ procs[1] = "exited"

\* C23: every registered watch is on an entry some root lists at depth <= 1
\* past the ignore filter, recursive exactly when the entry is a directory,
\* and no registered path is a root of the watch scope.
C23_RegistrationShape ==
  \A w \in watched :
    /\ \E i \in 1..Len(watch_folders) : w.path \in lookup(ignore, watch_folders[i])
    /\ w.recursive <=> w.path \in Dirs
    /\ \A i \in 1..Len(watch_folders) : w.path # watch_folders[i]

\* C24: a received event that is no Create, Write, Remove or Rename changes
\* nothing but the channel: the handle, the processes, the configuration and
\* the manifest stay as they are, nothing is reloaded, rewritten, killed or
\* spawned, and the loop is at recv again.  (A failed recv() leaves every
\* variable as it is and the loop at recv: a stuttering step.)
C24_OtherKindsNoOp ==
  [][ (Received /\ Head(rx).kind \notin ActedKinds) =>
        /\ pc' = "recv" /\ result' = result
        /\ NoKillNoSpawn /\ procs' = procs /\ process_lock' = process_lock
        /\ config' = config /\ manifest' = manifest
        /\ config_features' = config_features /\ product_name' = product_name
    ]_vars

\* such an event has been received and the first process runs on
C24_Witness ==
  /\ skipped /\ pc = "recv" /\ rx = <<>>
  /\ Len(procs) = 1 /\ procs[1] = "running" /\ last_kill = "none"
  /\ config = InitialConfig /\ manifest = ManifestOf(InitialConfig)

\* the loop acts on a Rename whose destination is not named tauri.conf.json
HandlingRenameAway ==
  /\ handling # None /\ handling[1].kind = "Rename"
  /\ file_name(handling[1].dest) # Some("tauri.conf.json")

\* C25: a received Rename goes to the reload exactly when the file name of
\* its destination is tauri.conf.json; with any other destination, the
\* source being tauri.conf.json included, it goes to the restart, which
\* reloads no configuration and rewrites no manifest.
C25_RenameByDestination ==
  [][ /\ (Received /\ Head(rx).kind = "Rename") =>
            pc' = IF file_name(Head(rx).dest) = Some("tauri.conf.json")
                    THEN "reload" ELSE "kill"
      /\ HandlingRenameAway =>
            /\ pc \in {"kill", "wait", "respawn"}
            /\ pc' \in {"kill", "wait", "respawn", "recv", "done"}
            /\ config' = config /\ manifest' = manifest
    ]_vars

\* tauri.conf.json was renamed to src/main.rs: the process was killed and has
\* exited, the configuration is the one loaded at the start
C25_Witness ==
  /\ pc = "respawn"
  /\ handling = Some(Event("Rename", TauriConf, SrcMain))
  /\ procs[process] = "exited" /\ last_kill = "ok"
  /\ config = InitialConfig /\ manifest = ManifestOf(InitialConfig)

====
